---- MODULE Spec2Model ----
(***************************************************************************)
(* SICS (Searchlight Inefficient Compression Scheme),                      *)
(* src/Compression_Decompression.py.                                       *)
(*                                                                         *)
(* A Python str is modelled as a sequence of code points (a character is   *)
(* a str of length one), a dict as the sequence of its <<key, value>>      *)
(* pairs in insertion order, and Python's 0-based positions are kept as    *)
(* they are in the code (At, CharAt, Slice).                               *)
(***************************************************************************)
EXTENDS Integers, Sequences, FiniteSets, TLC

VARIABLES
    pc,            \* position of the running call
    text,          \* main: sample / the text argument of CompressText
    freqs,         \* main: freqs
    sorted_chars,  \* main: sorted_chars / BuildMapping: sorted_chars
    mapping,       \* BuildMapping: mapping / the mapping argument of the codec
    code_gen,      \* BuildMapping: code_gen (the generator it created)
    idx,           \* BuildMapping: position of the for loop in sorted_chars
    compressed,    \* main: compressed / DecompressText: compressed
    error,         \* the exception propagating out of the running call
    inverse_map,   \* DecompressText: inverse_map
    i,             \* DecompressText: i
    start,         \* DecompressText: start
    key,           \* DecompressText: key
    result,        \* DecompressText: result
    codes,         \* history of the values key has taken, one per lookup
    restored,      \* main: restored
    verdict,       \* main: the line printed by the final comparison
    gen,           \* generator objects a caller got from GenerateCodes()
    yielded        \* the codes that caller has received from gen so far

vars == <<pc, text, freqs, sorted_chars, mapping, code_gen, idx, compressed, error,
          inverse_map, i, start, key, result, codes, restored, verdict,
          gen, yielded>>

----------------------------------------------------------------------------
(* Bounds of the model *)

MaxDistinct == 17   \* distinct characters in the leading part of a text
MaxTail     == 3    \* characters appended after the leading part
MaxText     == 3    \* length of a text handed to CompressText directly
MaxStream   == 4    \* length of a stream handed to DecompressText directly
MaxMapping  == 2    \* entries of a hand-built mapping
MaxTable    == 3    \* entries of a frequency table handed to SortCharacters
MaxCount    == 3    \* largest count in such a table
MaxCodes    == 32   \* codes a caller takes from one generator
MaxRanked   == 47   \* length of a ranked list handed to BuildMapping

----------------------------------------------------------------------------
(* Program constants *)

TierSize    == 15   \* range(15)
ChF         == 70   \* 'F'
Placeholder == 63   \* '?'

----------------------------------------------------------------------------
(* Python strings, lists and dicts *)

\* list[n]
At(s, n) == s[n + 1]

\* str[n], and the value a for loop over a str takes at position n
CharAt(s, n) == <<s[n + 1]>>

\* a < b on strs
RECURSIVE StrLess(_, _)
StrLess(a, b) ==
    IF b = <<>> THEN FALSE
    ELSE IF a = <<>> THEN TRUE
    ELSE IF Head(a) # Head(b) THEN Head(a) < Head(b)
    ELSE StrLess(Tail(a), Tail(b))

Slice(s, a, b) == SubSeq(s, a + 1, b)

RECURSIVE Join(_)
Join(parts) ==
    IF parts = <<>> THEN <<>> ELSE Head(parts) \o Join(Tail(parts))

DictHas(d, k) == \E j \in 1..Len(d) : d[j][1] = k

DictGet(d, k) == d[CHOOSE j \in 1..Len(d) : d[j][1] = k][2]

DictSet(d, k, v) ==
    IF DictHas(d, k)
    THEN [j \in 1..Len(d) |-> IF d[j][1] = k THEN <<k, v>> ELSE d[j]]
    ELSE Append(d, <<k, v>>)

DictKeys(d) == {d[j][1] : j \in 1..Len(d)}

DictValues(d) == {d[j][2] : j \in 1..Len(d)}

----------------------------------------------------------------------------
(* CountFrequencies *)

RECURSIVE CountLoop(_, _, _)
CountLoop(t, n, f) ==
    IF n >= Len(t) THEN f
    ELSE LET ch == CharAt(t, n)
         IN  IF DictHas(f, ch)
             THEN CountLoop(t, n + 1, DictSet(f, ch, DictGet(f, ch) + 1))
             ELSE CountLoop(t, n + 1, DictSet(f, ch, 1))

CountFrequencies(t) == CountLoop(t, 0, <<>>)

----------------------------------------------------------------------------
(* SortCharacters *)

SortKeyAscending(pair) == <<pair[2], pair[1]>>

SortKeyCountOnly(pair) == <<0 - pair[2], <<>>>>

SortKey(pair) == <<0 - pair[2], pair[1]>>

\* Python's ordering of two-element tuples
TupleLess(a, b) == a[1] < b[1] \/ (a[1] = b[1] /\ StrLess(a[2], b[2]))

\* list.sort is stable: an item goes after every item whose key is not greater
InsertByKey(s, x) ==
    LET n == Cardinality({j \in 1..Len(s) : ~TupleLess(SortKey(x), SortKey(s[j]))})
    IN  SubSeq(s, 1, n) \o <<x>> \o SubSeq(s, n + 1, Len(s))

RECURSIVE ListSort(_)
ListSort(items) ==
    IF items = <<>> THEN <<>>
    ELSE InsertByKey(ListSort(SubSeq(items, 1, Len(items) - 1)), items[Len(items)])

SortCharacters(f) ==
    LET items == ListSort(f)
    IN  [j \in 1..Len(items) |-> items[j][1]]

----------------------------------------------------------------------------
(* GenerateCodes *)

HexDigitLower(d) == IF d < 10 THEN 48 + d ELSE 87 + d

HexDigit(d) == IF d < 10 THEN 48 + d ELSE 55 + d

\* format(n, 'X')
RECURSIVE FormatX(_)
FormatX(n) ==
    IF n < 16 THEN <<HexDigit(n)>>
    ELSE FormatX(n \div 16) \o <<HexDigit(n % 16)>>

RangeHasSixteen(number) == number < TierSize + 1

\* number in range(15)
RangeHas(number) == number < TierSize

NextPrefixStuck(prefix) == prefix

\* prefix = prefix + 'F'
NextPrefix(prefix) == prefix \o <<ChF>>

\* A generator object is where its frame is suspended: before the first
\* statement ("new"), at the yield of the first loop ("single") or at the
\* yield of the loop inside while True ("multi").
FreshGenerator == [at |-> "new", number |-> 0, prefix |-> <<>>]

GenerateCodesShared == IF gen # <<>> THEN gen[1] ELSE FreshGenerator

GenerateCodes == FreshGenerator

\* next(g): the frame after it ran to its next yield
GenResume(g) ==
    CASE g.at = "new" ->
            [at |-> "single", number |-> 0, prefix |-> <<>>]
      [] g.at = "single" ->
            IF RangeHas(g.number + 1)
            THEN [g EXCEPT !.number = g.number + 1]
            ELSE [at |-> "multi", number |-> 0, prefix |-> <<ChF>>]
      [] g.at = "multi" ->
            IF RangeHas(g.number + 1)
            THEN [g EXCEPT !.number = g.number + 1]
            ELSE [at |-> "multi", number |-> 0, prefix |-> NextPrefix(g.prefix)]

\* the value of the yield expression a frame is suspended at
GenValue(g) ==
    IF g.at = "single" THEN FormatX(g.number)
    ELSE g.prefix \o FormatX(g.number)

----------------------------------------------------------------------------
(* CompressText *)

RECURSIVE CompressLoop(_, _, _, _)
CompressLoop(t, m, n, parts) ==
    IF n >= Len(t) THEN [exc |-> "none", value |-> Join(parts)]
    ELSE IF DictHas(m, CharAt(t, n))
         THEN CompressLoop(t, m, n + 1, Append(parts, DictGet(m, CharAt(t, n))))
         ELSE [exc |-> "KeyError", value |-> <<>>]

RECURSIVE CompressLoopSkip(_, _, _, _)
CompressLoopSkip(t, m, n, parts) ==
    IF n >= Len(t) THEN [exc |-> "none", value |-> Join(parts)]
    ELSE IF DictHas(m, CharAt(t, n))
         THEN CompressLoopSkip(t, m, n + 1, Append(parts, DictGet(m, CharAt(t, n))))
         ELSE CompressLoopSkip(t, m, n + 1, parts)

CompressTextSkip(t, m) == CompressLoopSkip(t, m, 0, <<>>)

CompressText(t, m) == CompressLoop(t, m, 0, <<>>)

----------------------------------------------------------------------------
(* DecompressText: the pieces of its body *)

RECURSIVE InverseLoop(_, _, _)
InverseLoop(m, n, inv) ==
    IF n > Len(m) THEN inv
    ELSE InverseLoop(m, n + 1, DictSet(inv, m[n][2], m[n][1]))

\* lines 87-89
BuildInverse(m) == InverseLoop(m, 1, <<>>)

IncludeNextNever(s, n) == n

\* lines 105-106
IncludeNext(s, n) == IF n < Len(s) THEN n + 1 ELSE n

GetOrEcho(inv, k) == IF DictHas(inv, k) THEN DictGet(inv, k) ELSE <<k[1]>>

\* inverse_map.get(key, '?')
GetOrPlaceholder(inv, k) ==
    IF DictHas(inv, k) THEN DictGet(inv, k) ELSE <<Placeholder>>

----------------------------------------------------------------------------
(* Inputs *)

SeqsUpTo(S, n) == UNION {[1..k -> S] : k \in 0..n}

\* K distinct characters, ' ' onwards
RankedList(K) == [j \in 1..K |-> <<31 + j>>]

LeadText(K) == [j \in 1..K |-> 31 + j]

TailChars == {32, 48, 63}

Texts == {LeadText(K) \o t : K \in 0..MaxDistinct, t \in SeqsUpTo(TailChars, MaxTail)}

CodecChars == {97, 98, 63}

HandCodes == {<<48>>, <<ChF, 48>>, <<ChF>>}

StreamSyms == {48, 49, ChF}

\* hand-built mappings: single-character keys, any of the codes, keys distinct
HandMappings ==
    {m \in SeqsUpTo({<<c>> : c \in CodecChars} \X HandCodes, MaxMapping) :
        \A a, b \in 1..Len(m) : a # b => m[a][1] # m[b][1]}

SortChars == {65, 66, 97}

FreqTables ==
    {f \in SeqsUpTo({<<c>> : c \in SortChars} \X (1..MaxCount), MaxTable) :
        \A a, b \in 1..Len(f) : a # b => f[a][1] # f[b][1]}

----------------------------------------------------------------------------
(* Initial states *)

Blank ==
    /\ text = <<>> /\ freqs = <<>> /\ sorted_chars = <<>> /\ mapping = <<>>
    /\ code_gen = FreshGenerator /\ idx = 0 /\ compressed = <<>>
    /\ error = "none" /\ inverse_map = <<>> /\ i = 0 /\ start = 0
    /\ key = <<>> /\ result = <<>> /\ codes = <<>> /\ restored = <<>>
    /\ verdict = "" /\ gen = <<>> /\ yielded = <<>>

\* main() on a text
Init ==
    /\ pc = "count"
    /\ text \in Texts
    /\ freqs = <<>> /\ sorted_chars = <<>> /\ mapping = <<>>
    /\ code_gen = FreshGenerator /\ idx = 0 /\ compressed = <<>>
    /\ error = "none" /\ inverse_map = <<>> /\ i = 0 /\ start = 0
    /\ key = <<>> /\ result = <<>> /\ codes = <<>> /\ restored = <<>>
    /\ verdict = "" /\ gen = <<>> /\ yielded = <<>>

\* a caller of CompressText / DecompressText with arguments of its own
InitCodec ==
    /\ \/ pc = "compress" /\ text \in SeqsUpTo(CodecChars, MaxText)
          /\ compressed = <<>>
       \/ pc = "decompress" /\ text = <<>>
          /\ compressed \in SeqsUpTo(StreamSyms, MaxStream)
    /\ mapping \in HandMappings
    /\ freqs = <<>> /\ sorted_chars = <<>>
    /\ code_gen = FreshGenerator /\ idx = 0
    /\ error = "none" /\ inverse_map = <<>> /\ i = 0 /\ start = 0
    /\ key = <<>> /\ result = <<>> /\ codes = <<>> /\ restored = <<>>
    /\ verdict = "" /\ gen = <<>> /\ yielded = <<>>

\* a caller of SortCharacters with a table of its own
InitSort ==
    /\ pc = "sort"
    /\ freqs \in FreqTables
    /\ text = <<>> /\ sorted_chars = <<>> /\ mapping = <<>>
    /\ code_gen = FreshGenerator /\ idx = 0 /\ compressed = <<>>
    /\ error = "none" /\ inverse_map = <<>> /\ i = 0 /\ start = 0
    /\ key = <<>> /\ result = <<>> /\ codes = <<>> /\ restored = <<>>
    /\ verdict = "" /\ gen = <<>> /\ yielded = <<>>

\* a caller of GenerateCodes and BuildMapping
InitGen ==
    /\ pc = "idle"
    /\ Blank

----------------------------------------------------------------------------
(* main: steps 1 and 2 *)

DoCount ==
    /\ pc = "count"
    /\ freqs' = CountFrequencies(text)
    /\ pc' = "sort"
    /\ UNCHANGED <<text, sorted_chars, mapping, code_gen, idx, compressed,
                   error, inverse_map, i, start, key, result, codes, restored,
                   verdict, gen, yielded>>

DoSort ==
    /\ pc = "sort"
    /\ sorted_chars' = SortCharacters(freqs)
    /\ pc' = "build"
    /\ UNCHANGED <<text, freqs, mapping, code_gen, idx, compressed,
                   error, inverse_map, i, start, key, result, codes, restored,
                   verdict, gen, yielded>>

----------------------------------------------------------------------------
(* BuildMapping *)

\* lines 67-68
BuildStart ==
    /\ pc = "build"
    /\ mapping' = <<>>
    /\ code_gen' = GenerateCodes
    /\ idx' = 0
    /\ pc' = "build_loop"
    /\ UNCHANGED <<text, freqs, sorted_chars, compressed,
                   error, inverse_map, i, start, key, result, codes, restored,
                   verdict, gen, yielded>>

\* lines 69-71: one iteration of the for loop, or its end and the return
BuildStep ==
    /\ pc = "build_loop"
    /\ IF idx < Len(sorted_chars)
       THEN LET g == GenResume(code_gen)
            IN  /\ mapping' = DictSet(mapping, At(sorted_chars, idx), GenValue(g))
                /\ code_gen' = g
                /\ idx' = idx + 1
                /\ pc' = pc
       ELSE /\ pc' = "built"
            /\ UNCHANGED <<mapping, code_gen, idx>>
    /\ UNCHANGED <<text, freqs, sorted_chars, compressed,
                   error, inverse_map, i, start, key, result, codes, restored,
                   verdict, gen, yielded>>

----------------------------------------------------------------------------
(* CompressText *)

DoCompress ==
    /\ pc \in {"built", "compress"}
    /\ LET r == CompressText(text, mapping)
       IN  IF r.exc = "none"
           THEN /\ compressed' = r.value
                /\ pc' = "decompress"
                /\ error' = error
           ELSE /\ error' = r.exc
                /\ pc' = "raised"
                /\ compressed' = compressed
    /\ UNCHANGED <<text, freqs, sorted_chars, mapping, code_gen, idx,
                   inverse_map, i, start, key, result, codes, restored,
                   verdict, gen, yielded>>

----------------------------------------------------------------------------
(* DecompressText *)

\* lines 87-93
DecompressStart ==
    /\ pc = "decompress"
    /\ inverse_map' = BuildInverse(mapping)
    /\ i' = 0
    /\ result' = <<>>
    /\ codes' = <<>>
    /\ pc' = "while"
    /\ UNCHANGED <<text, freqs, sorted_chars, mapping, code_gen, idx,
                   compressed, error, start, key, restored, verdict, gen,
                   yielded>>

\* lines 94-101: the test of the outer loop and the branch on compressed[i]
WhileTest ==
    /\ pc = "while"
    /\ IF i < Len(compressed)
       THEN IF CharAt(compressed, i) # <<ChF>>
            THEN /\ key' = CharAt(compressed, i)
                 /\ i' = i + 1
                 /\ pc' = "lookup"
                 /\ start' = start
            ELSE /\ start' = i
                 /\ pc' = "frun"
                 /\ UNCHANGED <<key, i>>
       ELSE /\ pc' = "return"
            /\ UNCHANGED <<key, i, start>>
    /\ UNCHANGED <<text, freqs, sorted_chars, mapping, code_gen, idx,
                   compressed, error, inverse_map, result, codes, restored,
                   verdict, gen, yielded>>

\* lines 102-107: one iteration of the inner loop, or its end and the slice
FRunStep ==
    /\ pc = "frun"
    /\ IF i < Len(compressed) /\ CharAt(compressed, i) = <<ChF>>
       THEN /\ i' = i + 1
            /\ UNCHANGED <<key, pc>>
       ELSE /\ i' = IncludeNext(compressed, i)
            /\ key' = Slice(compressed, start, i')
            /\ pc' = "lookup"
    /\ UNCHANGED <<text, freqs, sorted_chars, mapping, code_gen, idx,
                   compressed, error, inverse_map, start, result, codes,
                   restored, verdict, gen, yielded>>

\* line 109
Lookup ==
    /\ pc = "lookup"
    /\ result' = Append(result, GetOrPlaceholder(inverse_map, key))
    /\ codes' = Append(codes, key)
    /\ pc' = "while"
    /\ UNCHANGED <<text, freqs, sorted_chars, mapping, code_gen, idx,
                   compressed, error, inverse_map, i, start, key, restored,
                   verdict, gen, yielded>>

\* line 110
Return ==
    /\ pc = "return"
    /\ restored' = Join(result)
    /\ pc' = "returned"
    /\ UNCHANGED <<text, freqs, sorted_chars, mapping, code_gen, idx,
                   compressed, error, inverse_map, i, start, key, result,
                   codes, verdict, gen, yielded>>

\* main: lines 142-145
Verify ==
    /\ pc = "returned"
    /\ verdict' = IF restored = text THEN "Success" ELSE "Error"
    /\ pc' = "done"
    /\ UNCHANGED <<text, freqs, sorted_chars, mapping, code_gen, idx,
                   compressed, error, inverse_map, i, start, key, result,
                   codes, restored, gen, yielded>>

----------------------------------------------------------------------------
(* Callers of the generator and of BuildMapping *)

\* gen = GenerateCodes()
CallGenerateCodes ==
    /\ gen' = <<GenerateCodes>>
    /\ yielded' = <<>>
    /\ UNCHANGED <<pc, text, freqs, sorted_chars, mapping, code_gen, idx,
                   compressed, error, inverse_map, i, start, key, result,
                   codes, restored, verdict>>

\* next(gen)
CallNext ==
    /\ gen # <<>>
    /\ Len(yielded) < MaxCodes
    /\ LET g == GenResume(gen[1])
       IN  /\ gen' = <<g>>
           /\ yielded' = Append(yielded, GenValue(g))
    /\ UNCHANGED <<pc, text, freqs, sorted_chars, mapping, code_gen, idx,
                   compressed, error, inverse_map, i, start, key, result,
                   codes, restored, verdict>>

\* BuildMapping(ranked) for a ranked list of K characters
CallBuildMapping ==
    /\ pc \in {"idle", "built"}
    /\ \E K \in 0..MaxRanked : sorted_chars' = RankedList(K)
    /\ pc' = "build"
    /\ UNCHANGED <<text, freqs, mapping, code_gen, idx, compressed,
                   error, inverse_map, i, start, key, result, codes, restored,
                   verdict, gen, yielded>>

----------------------------------------------------------------------------
(* Specifications *)

Next ==
    \/ DoCount \/ DoSort \/ BuildStart \/ BuildStep \/ DoCompress
    \/ DecompressStart \/ WhileTest \/ FRunStep \/ Lookup \/ Return \/ Verify

Spec == Init /\ [][Next]_vars

NextCodec ==
    \/ DoCompress \/ DecompressStart \/ WhileTest \/ FRunStep \/ Lookup \/ Return

SpecCodec == InitCodec /\ [][NextCodec]_vars

\* every step of DecompressText is a step of one synchronous call
FairSpecCodec == InitCodec /\ [][NextCodec]_vars /\ WF_vars(NextCodec)

NextSort == DoSort

SpecSort == InitSort /\ [][NextSort]_vars

NextGen ==
    \/ CallGenerateCodes \/ CallNext \/ CallBuildMapping \/ BuildStart \/ BuildStep

SpecGen == InitGen /\ [][NextGen]_vars

----------------------------------------------------------------------------
(* Vocabulary of the properties *)

\* the terminal symbols 0-9, A-E in ascending value
Terminals == <<48, 49, 50, 51, 52, 53, 54, 55, 56, 57, 65, 66, 67, 68, 69>>

TerminalSet == {Terminals[n] : n \in 1..Len(Terminals)}

\* [0-9A-E] | F+[0-9A-E]
WellFormed(c) ==
    /\ Len(c) >= 1
    /\ c[Len(c)] \in TerminalSet
    /\ \A n \in 1..(Len(c) - 1) : c[n] = ChF

AllF(c) == \A n \in 1..Len(c) : c[n] = ChF

ProperPrefix(a, b) == Len(a) < Len(b) /\ SubSeq(b, 1, Len(a)) = a

\* number of leading F symbols
Tier(c) == Cardinality({n \in 1..Len(c) : \A m \in 1..n : c[m] = ChF})

\* value of the last symbol of a well-formed code
TerminalValue(c) == (CHOOSE n \in 1..Len(Terminals) : Terminals[n] = c[Len(c)]) - 1

CodeBefore(a, b) ==
    Tier(a) < Tier(b) \/ (Tier(a) = Tier(b) /\ TerminalValue(a) < TerminalValue(b))

\* the code of rank r: r div 15 symbols F, then the digit of r mod 15
ExpectedCode(r) ==
    [n \in 1..(r \div 15) |-> ChF] \o <<Terminals[(r % 15) + 1]>>

\* occurrences of character ch in text
Count(ch) == Cardinality({n \in 1..Len(text) : <<text[n]>> = ch})

TextChars == {<<text[n]>> : n \in 1..Len(text)}

Injective(m) == \A a, b \in 1..Len(m) : m[a][2] = m[b][2] => a = b

RECURSIVE Pow15(_)
Pow15(n) == IF n <= 0 THEN 1 ELSE 15 * Pow15(n - 1)

LookupErrorClass == {"LookupError", "KeyError", "IndexError"}

Scanning == {"while", "frun", "lookup", "return", "returned"}

----------------------------------------------------------------------------
\* C1: round trip. Once main has decompressed what it compressed with the
\* mapping built from the text's own frequencies, the restored text equals
\* the text (and nothing was raised on the way), for the empty text and for
\* texts with more than 15 distinct characters alike.
RoundTrip ==
    /\ pc # "raised" /\ error = "none"
    /\ pc \in {"returned", "done"} => restored = text
    /\ pc = "done" => verdict = "Success"

RoundTripWitness ==
    /\ pc = "done"
    /\ Cardinality(TextChars) > TierSize
    /\ \E c \in DictValues(mapping) : Len(c) > 1
    /\ restored = text

----------------------------------------------------------------------------
\* C2: code well-formedness. Every code a generator has yielded matches
\* [0-9A-E] | F+[0-9A-E], and no code yielded at one position equals or is a
\* proper prefix of the code yielded at another position.
CodesWellFormed ==
    \A a \in 1..Len(yielded) :
        /\ WellFormed(yielded[a])
        /\ \A b \in 1..Len(yielded) :
              a # b => /\ yielded[a] # yielded[b]
                       /\ ~ProperPrefix(yielded[a], yielded[b])

CodesWellFormedWitness ==
    /\ Len(yielded) > 2 * TierSize
    /\ yielded[2 * TierSize + 1] = <<ChF, ChF, 48>>

----------------------------------------------------------------------------
\* C3: invalid mapping rejection. DecompressText does not get past the
\* construction of the inverse map when two characters of the mapping share
\* a code.
NonInjectiveRejected ==
    ~Injective(mapping) => pc \notin Scanning

----------------------------------------------------------------------------
\* C4: domain mismatch. CompressText raises a LookupError-class error, and
\* assigns no stream, exactly when some character of the text has no entry in
\* the mapping; otherwise it returns the concatenation of the characters' codes.
DomainMismatch ==
    LET missing == \E n \in 1..Len(text) : ~DictHas(mapping, <<text[n]>>)
    IN  /\ missing => /\ pc \in {"compress", "raised"}
                      /\ compressed = <<>>
        /\ pc = "raised" => missing /\ error \in LookupErrorClass
        /\ (~missing /\ text # <<>> /\ pc # "compress") =>
              /\ error = "none"
              /\ compressed = Join([n \in 1..Len(text) |-> DictGet(mapping, <<text[n]>>)])

DomainMismatchWitness ==
    /\ pc = "raised"
    /\ error = "KeyError"
    /\ Len(text) >= 2
    /\ DictHas(mapping, <<text[1]>>)
    /\ ~DictHas(mapping, <<text[Len(text)]>>)

----------------------------------------------------------------------------
\* C5: placeholder fallback. DecompressText raises nothing; the k-th code it
\* scanned gives the k-th character of the output, which is '?' when no
\* character of the mapping has that code and a character that has it
\* otherwise, also for the codes before and after an unknown one.
PlaceholderFallback ==
    /\ pc \in Scanning => error = "none"
    /\ Len(result) = Len(codes)
    /\ \A k \in 1..Len(codes) :
          IF codes[k] \in DictValues(mapping)
          THEN \E n \in 1..Len(mapping) : mapping[n] = <<result[k], codes[k]>>
          ELSE result[k] = <<Placeholder>>
    /\ pc = "returned" => restored = Join(result) /\ Len(restored) = Len(codes)

PlaceholderFallbackWitness ==
    /\ pc = "returned"
    /\ Len(codes) = 4
    /\ codes[1] \in DictValues(mapping)
    /\ codes[2] \notin DictValues(mapping)
    /\ codes[3] \in DictValues(mapping)
    /\ codes[4] = <<ChF>> /\ <<ChF>> \notin DictValues(mapping)
    /\ restored[1] # Placeholder /\ restored[2] = Placeholder
    /\ restored[3] # Placeholder /\ restored[4] = Placeholder

----------------------------------------------------------------------------
\* C6: rank ordering. In the mapping main builds from a text, a character
\* that occurs more often than another has the earlier code in generation
\* order (lower tier, or same tier and smaller terminal value), hence a code
\* that is not longer.
RankOrdering ==
    pc \in {"built", "decompress"} \cup Scanning \cup {"done"} =>
        \A a, b \in TextChars :
            Count(a) > Count(b) =>
                /\ CodeBefore(DictGet(mapping, a), DictGet(mapping, b))
                /\ Len(DictGet(mapping, a)) <= Len(DictGet(mapping, b))

RankOrderingWitness ==
    /\ pc = "built"
    /\ \E a, b \in TextChars :
          /\ Count(a) > Count(b)
          /\ Tier(DictGet(mapping, a)) < Tier(DictGet(mapping, b))
          /\ StrLess(b, a)
    /\ \E a, b \in TextChars :
          /\ Count(a) > Count(b)
          /\ Tier(DictGet(mapping, a)) = Tier(DictGet(mapping, b))

----------------------------------------------------------------------------
\* C7: tier boundary and restartability. While and after BuildMapping runs,
\* the character at index r of the ranked list has r div 15 symbols F
\* followed by the hex digit of r mod 15, whatever a caller's generator has
\* yielded meanwhile; and a caller's generator yields that same sequence
\* from its own start.
TierBoundary ==
    /\ pc \in {"build_loop", "built"} =>
          /\ Len(mapping) = idx
          /\ \A n \in 1..Len(mapping) :
                mapping[n] = <<sorted_chars[n], ExpectedCode(n - 1)>>
    /\ pc = "built" => Len(mapping) = Len(sorted_chars)
    /\ \A n \in 1..Len(yielded) : yielded[n] = ExpectedCode(n - 1)

TierBoundaryWitness ==
    /\ pc = "built"
    /\ Len(sorted_chars) > TierSize
    /\ DictGet(mapping, sorted_chars[TierSize]) = <<69>>
    /\ DictGet(mapping, sorted_chars[TierSize + 1]) = <<ChF, 48>>
    /\ Len(yielded) > TierSize
    /\ gen # <<code_gen>>

----------------------------------------------------------------------------
\* C8 as stated: there is a constant C with
\* len(code of rank r) <= C + log15(r + 1) for every rank r, that is
\* 15^(len - C) <= r + 1. The constants tried are those whose failing rank
\* 15 * (C + 1) lies within the ranked lists of the model.
MaxLogConst == (MaxRanked \div TierSize) - 1

LogarithmicLength ==
    \E C \in 0..MaxLogConst :
        \A n \in 1..Len(mapping) : Pow15(Len(mapping[n][2]) - C) <= n

\* C8: code length growth, amended. The code BuildMapping assigns to rank r
\* has exactly (r div 15) + 1 symbols: it grows linearly in r.
LinearLength ==
    pc \in {"build_loop", "built"} =>
        \A n \in 1..Len(mapping) :
            Len(mapping[n][2]) = ((n - 1) \div TierSize) + 1

LinearLengthWitness ==
    /\ pc = "built"
    /\ Len(mapping) > 3 * TierSize
    /\ Len(mapping[3 * TierSize + 1][2]) = 4
    /\ Pow15(4 - MaxLogConst) > 3 * TierSize + 1

----------------------------------------------------------------------------
\* C9: rank sorter. The list SortCharacters returns is a permutation of the
\* table's keys, a character comes before every character with a smaller
\* count and before every character with the same count and a larger code
\* point, and every insertion order of the same table gives the same list.
Reorderings(f) ==
    {[n \in 1..Len(f) |-> f[p[n]]] : p \in Permutations(1..Len(f))}

SortOrder ==
    pc = "build" =>
        /\ Len(sorted_chars) = Len(freqs)
        /\ {sorted_chars[n] : n \in 1..Len(sorted_chars)} = DictKeys(freqs)
        /\ \A a, b \in 1..Len(sorted_chars) :
              a < b =>
                LET ca == DictGet(freqs, sorted_chars[a])
                    cb == DictGet(freqs, sorted_chars[b])
                IN  ca > cb \/ (ca = cb /\ sorted_chars[a][1] < sorted_chars[b][1])
        /\ \A g \in Reorderings(freqs) : SortCharacters(g) = sorted_chars

SortOrderWitness ==
    /\ pc = "build"
    /\ Len(freqs) = 3
    /\ freqs[1][1] = <<97>> /\ freqs[2][1] = <<65>>
    /\ freqs[1][2] = freqs[2][2] /\ freqs[3][2] > freqs[1][2]
    /\ sorted_chars = <<freqs[3][1], <<65>>, <<97>>>>

----------------------------------------------------------------------------
\* C10: decode scan. The cursor never passes the end of the stream and never
\* moves back; the output grows only at a lookup, by one character, after the
\* cursor has moved past where the iteration began; the codes scanned so far
\* are exactly the consumed part of the stream, each a single non-F symbol,
\* an F-run with the one symbol after it, or an F-run that ends the stream;
\* and the call returns with the cursor at the end of the stream.
ScanShape ==
    /\ i <= Len(compressed)
    /\ pc \in {"while", "return", "returned"} =>
          /\ Join(codes) = SubSeq(compressed, 1, i)
          /\ Len(result) = Len(codes)
    /\ pc = "returned" => i = Len(compressed)
    /\ \A k \in 1..Len(codes) :
          \/ Len(codes[k]) = 1 /\ codes[k] # <<ChF>>
          \/ /\ Len(codes[k]) >= 2
             /\ AllF(SubSeq(codes[k], 1, Len(codes[k]) - 1))
             /\ codes[k][Len(codes[k])] # ChF
          \/ /\ Len(codes[k]) >= 1 /\ AllF(codes[k])
             /\ k = Len(codes) /\ Len(Join(codes)) = Len(compressed)

ScanStep ==
    /\ i' >= i
    /\ result' # result =>
          /\ pc = "lookup"
          /\ result' = Append(result, result'[Len(result')])
          /\ i > Len(Join(codes))

ScanProgress ==
    /\ []ScanShape
    /\ [][ScanStep]_vars
    /\ (pc = "decompress") ~> (pc = "returned" /\ i = Len(compressed))

ScanProgressWitness ==
    /\ pc = "returned"
    /\ i = Len(compressed)
    /\ Len(codes) = 2
    /\ Len(codes[1]) = 1
    /\ Len(codes[2]) = 3 /\ codes[2][3] # ChF

====
